---- MODULE Spec2Model ----
(***************************************************************************)
(* Line classification engine of the code line counter:                    *)
(* getLanguageFromExtension, getCommentPatterns, analyzeFileContent and    *)
(* useCodeAnalyzer of src/components/CodeAnalyzer.tsx.                     *)
(*                                                                         *)
(* A JavaScript string is a sequence of one-character strings.  A property *)
(* that is absent from an object literal is `undefined`, modelled by the   *)
(* empty sequence (both are falsy in the guards that test them).           *)
(***************************************************************************)
EXTENDS Integers, Sequences, FiniteSets, TLC

VARIABLES
    \* analyzeFileContent: parameters, locals, position and returned value
    content, language, lines, lineIdx, blankLines, commentLines, codeLines,
    inBlockComment, scanned, stats, cpc,
    \* getLanguageFromExtension: parameter, returned value and position
    filename, ext, detected, rpc,
    \* useCodeAnalyzer: parameter, locals, position and returned value
    files, fileIdx, fileAnalyses, languageStats, failedIdx, report, apc,
    \* AnalysisResults: how often the returned result has been rendered
    renders,
    \* Index: the state of the page, the promises useCodeAnalyzer has made (one
    \* for each new files array), the one whose result is shown, and the
    \* position of analyzeCode with the promise it awaits
    pageFiles, isAnalyzing, analysisResult, runs, shownRun, acPc, acRun,
    \* FileUpload: the invocations of processFiles, the state of the component
    \* and the calls of onFilesSelected so far
    procs, selectedFiles, isProcessing, calls

classifyVars == <<content, language, lines, lineIdx, blankLines, commentLines,
                  codeLines, inBlockComment, scanned, stats, cpc>>
resolveVars == <<filename, ext, detected, rpc>>
analyzerVars == <<files, fileIdx, fileAnalyses, languageStats, failedIdx, report, apc>>
renderVars == <<renders>>
indexVars == <<pageFiles, isAnalyzing, analysisResult, runs, shownRun, acPc, acRun>>
uploadVars == <<procs, selectedFiles, isProcessing, calls>>
otherVars == <<renderVars, indexVars, uploadVars>>
vars == <<content, language, lines, lineIdx, blankLines, commentLines, codeLines,
          inBlockComment, scanned, stats, cpc, filename, ext, detected, rpc,
          files, fileIdx, fileAnalyses, languageStats, failedIdx, report, apc,
          renders, pageFiles, isAnalyzing, analysisResult, runs, shownRun, acPc, acRun,
          procs, selectedFiles, isProcessing, calls>>

----------------------------------------------------------------------------
(* Bounds of the model *)

\* number of tokens a generated file content is made of
MaxTokens == 4

\* number of tokens a generated file name is made of
MaxNameTokens == 3

\* number of files handed to useCodeAnalyzer
MaxFiles == 3

\* number of times one result is rendered
MaxRenders == 2

\* number of times the user selects files on the page
MaxSelections == 2

\* number of files in one drop or selection
MaxInputs == 2

\* number of drops or selections
MaxInvocations == 2

----------------------------------------------------------------------------
(* JavaScript values and string primitives *)

undefined == <<>>

null == [type |-> "null"]

\* a language label that is a string
Str(s) == [type |-> "string", value |-> s]

\* String.prototype.trim strips these from both ends
IsWhitespace(c) == c \in {" ", "\t", "\n", "\r"}

RECURSIVE trimStart(_)
trimStart(s) ==
    IF s = <<>> THEN s
    ELSE IF IsWhitespace(Head(s)) THEN trimStart(Tail(s)) ELSE s

RECURSIVE trimEnd(_)
trimEnd(s) ==
    IF s = <<>> THEN s
    ELSE IF IsWhitespace(s[Len(s)]) THEN trimEnd(SubSeq(s, 1, Len(s) - 1)) ELSE s

trim(s) == trimEnd(trimStart(s))

startsWith(s, p) == Len(p) <= Len(s) /\ SubSeq(s, 1, Len(p)) = p

includes(s, p) == \E i \in 0..(Len(s) - Len(p)) : SubSeq(s, i + 1, i + Len(p)) = p

UpperLetters ==
    <<"A", "B", "C", "D", "E", "F", "G", "H", "I", "J", "K", "L", "M",
      "N", "O", "P", "Q", "R", "S", "T", "U", "V", "W", "X", "Y", "Z">>

LowerLetters ==
    <<"a", "b", "c", "d", "e", "f", "g", "h", "i", "j", "k", "l", "m",
      "n", "o", "p", "q", "r", "s", "t", "u", "v", "w", "x", "y", "z">>

LowerChar(c) ==
    IF \E i \in 1..Len(UpperLetters) : UpperLetters[i] = c
    THEN LowerLetters[CHOOSE i \in 1..Len(UpperLetters) : UpperLetters[i] = c]
    ELSE c

toLowerCase(s) == [i \in 1..Len(s) |-> LowerChar(s[i])]

\* s.split(sep) for a one-character separator: the pieces between the
\* separators, Cardinality(separators) + 1 of them
RECURSIVE split(_, _)
split(s, sep) ==
    IF \A i \in 1..Len(s) : s[i] # sep THEN <<s>>
    ELSE LET k == CHOOSE i \in 1..Len(s) :
                      s[i] = sep /\ \A j \in 1..(i - 1) : s[j] # sep
         IN  <<SubSeq(s, 1, k - 1)>> \o split(SubSeq(s, k + 1, Len(s)), sep)

----------------------------------------------------------------------------
(* Language detection based on file extensions *)

languageMap ==
  (<<"j", "s">> :> "JavaScript") @@
  (<<"j", "s", "x">> :> "JavaScript React") @@
  (<<"t", "s">> :> "TypeScript") @@
  (<<"t", "s", "x">> :> "TypeScript React") @@
  (<<"p", "y">> :> "Python") @@
  (<<"j", "a", "v", "a">> :> "Java") @@
  (<<"c", "p", "p">> :> "C++") @@
  (<<"c", "c">> :> "C++") @@
  (<<"c", "x", "x">> :> "C++") @@
  (<<"c">> :> "C") @@
  (<<"h">> :> "C Header") @@
  (<<"h", "p", "p">> :> "C++ Header") @@
  (<<"c", "s">> :> "C#") @@
  (<<"p", "h", "p">> :> "PHP") @@
  (<<"r", "b">> :> "Ruby") @@
  (<<"g", "o">> :> "Go") @@
  (<<"r", "s">> :> "Rust") @@
  (<<"s", "w", "i", "f", "t">> :> "Swift") @@
  (<<"k", "t">> :> "Kotlin") @@
  (<<"d", "a", "r", "t">> :> "Dart") @@
  (<<"v", "u", "e">> :> "Vue") @@
  (<<"h", "t", "m", "l">> :> "HTML") @@
  (<<"h", "t", "m">> :> "HTML") @@
  (<<"c", "s", "s">> :> "CSS") @@
  (<<"s", "c", "s", "s">> :> "SCSS") @@
  (<<"s", "a", "s", "s">> :> "Sass") @@
  (<<"l", "e", "s", "s">> :> "Less") @@
  (<<"x", "m", "l">> :> "XML") @@
  (<<"j", "s", "o", "n">> :> "JSON") @@
  (<<"m", "d">> :> "Markdown") @@
  (<<"t", "x", "t">> :> "Text") @@
  (<<"s", "q", "l">> :> "SQL") @@
  (<<"s", "h">> :> "Shell") @@
  (<<"b", "a", "t">> :> "Batch") @@
  (<<"p", "s", "1">> :> "PowerShell") @@
  (<<"y", "a", "m", "l">> :> "YAML") @@
  (<<"y", "m", "l">> :> "YAML")

\* what an object literal inherits from Object.prototype under a name that
\* toLowerCase can produce: the Object constructor and the prototype itself
ObjectPrototype ==
    (<<"c", "o", "n", "s", "t", "r", "u", "c", "t", "o", "r">> :>
        [type |-> "function", value |-> "Object"]) @@
    (<<"_", "_", "p", "r", "o", "t", "o", "_", "_">> :>
        [type |-> "object", value |-> "Object.prototype"])

\* line 26: filename.split('.').pop()?.toLowerCase() || ''
Extension(name) ==
    LET pieces == split(name, ".")
    IN  toLowerCase(pieces[Len(pieces)])

\* line 68: languageMap[ext] || 'Unknown'
LookupLanguage(e) ==
    IF e \in DOMAIN languageMap THEN Str(languageMap[e])
    ELSE IF e \in DOMAIN ObjectPrototype THEN ObjectPrototype[e]
    ELSE Str("Unknown")

getLanguageFromExtension(name) == LookupLanguage(Extension(name))

----------------------------------------------------------------------------
(* Comment patterns for different languages *)

patterns ==
  ("JavaScript" :> [single |-> <<"/", "/">>, blockStart |-> <<"/", "*">>, blockEnd |-> <<"*", "/">>]) @@
  ("JavaScript React" :> [single |-> <<"/", "/">>, blockStart |-> <<"/", "*">>, blockEnd |-> <<"*", "/">>]) @@
  ("TypeScript" :> [single |-> <<"/", "/">>, blockStart |-> <<"/", "*">>, blockEnd |-> <<"*", "/">>]) @@
  ("TypeScript React" :> [single |-> <<"/", "/">>, blockStart |-> <<"/", "*">>, blockEnd |-> <<"*", "/">>]) @@
  ("Java" :> [single |-> <<"/", "/">>, blockStart |-> <<"/", "*">>, blockEnd |-> <<"*", "/">>]) @@
  ("C++" :> [single |-> <<"/", "/">>, blockStart |-> <<"/", "*">>, blockEnd |-> <<"*", "/">>]) @@
  ("C" :> [single |-> <<"/", "/">>, blockStart |-> <<"/", "*">>, blockEnd |-> <<"*", "/">>]) @@
  ("C Header" :> [single |-> <<"/", "/">>, blockStart |-> <<"/", "*">>, blockEnd |-> <<"*", "/">>]) @@
  ("C++ Header" :> [single |-> <<"/", "/">>, blockStart |-> <<"/", "*">>, blockEnd |-> <<"*", "/">>]) @@
  ("C#" :> [single |-> <<"/", "/">>, blockStart |-> <<"/", "*">>, blockEnd |-> <<"*", "/">>]) @@
  ("PHP" :> [single |-> <<"/", "/">>, blockStart |-> <<"/", "*">>, blockEnd |-> <<"*", "/">>]) @@
  ("CSS" :> [single |-> undefined, blockStart |-> <<"/", "*">>, blockEnd |-> <<"*", "/">>]) @@
  ("SCSS" :> [single |-> <<"/", "/">>, blockStart |-> <<"/", "*">>, blockEnd |-> <<"*", "/">>]) @@
  ("Sass" :> [single |-> <<"/", "/">>, blockStart |-> undefined, blockEnd |-> undefined]) @@
  ("Less" :> [single |-> <<"/", "/">>, blockStart |-> <<"/", "*">>, blockEnd |-> <<"*", "/">>]) @@
  ("Python" :> [single |-> <<"#">>, blockStart |-> <<"\"", "\"", "\"">>, blockEnd |-> <<"\"", "\"", "\"">>]) @@
  ("Ruby" :> [single |-> <<"#">>, blockStart |-> <<"=", "b", "e", "g", "i", "n">>, blockEnd |-> <<"=", "e", "n", "d">>]) @@
  ("Go" :> [single |-> <<"/", "/">>, blockStart |-> <<"/", "*">>, blockEnd |-> <<"*", "/">>]) @@
  ("Rust" :> [single |-> <<"/", "/">>, blockStart |-> <<"/", "*">>, blockEnd |-> <<"*", "/">>]) @@
  ("Swift" :> [single |-> <<"/", "/">>, blockStart |-> <<"/", "*">>, blockEnd |-> <<"*", "/">>]) @@
  ("Kotlin" :> [single |-> <<"/", "/">>, blockStart |-> <<"/", "*">>, blockEnd |-> <<"*", "/">>]) @@
  ("Dart" :> [single |-> <<"/", "/">>, blockStart |-> <<"/", "*">>, blockEnd |-> <<"*", "/">>]) @@
  ("Shell" :> [single |-> <<"#">>, blockStart |-> undefined, blockEnd |-> undefined]) @@
  ("Batch" :> [single |-> <<"R", "E", "M">>, blockStart |-> undefined, blockEnd |-> undefined]) @@
  ("PowerShell" :> [single |-> <<"#">>, blockStart |-> <<"<", "#">>, blockEnd |-> <<"#", ">">>]) @@
  ("HTML" :> [single |-> undefined, blockStart |-> <<"<", "!", "-", "-">>, blockEnd |-> <<"-", "-", ">">>]) @@
  ("XML" :> [single |-> undefined, blockStart |-> <<"<", "!", "-", "-">>, blockEnd |-> <<"-", "-", ">">>]) @@
  ("Vue" :> [single |-> undefined, blockStart |-> <<"<", "!", "-", "-">>, blockEnd |-> <<"-", "-", ">">>]) @@
  ("SQL" :> [single |-> <<"-", "-">>, blockStart |-> <<"/", "*">>, blockEnd |-> <<"*", "/">>]) @@
  ("YAML" :> [single |-> <<"#">>, blockStart |-> undefined, blockEnd |-> undefined])

\* the key under which a value indexes an object: strings as they are, the
\* Object constructor and Object.prototype through their string conversion
PropertyKey(v) ==
    CASE v.type = "string" -> v.value
      [] v.type = "function" -> "function Object() { [native code] }"
      [] OTHER -> "[object Object]"

getCommentPatterns(lang) ==
    IF PropertyKey(lang) \in DOMAIN patterns
    THEN patterns[PropertyKey(lang)]
    ELSE [single |-> <<"/", "/">>, blockStart |-> undefined, blockEnd |-> undefined]

----------------------------------------------------------------------------
(* analyzeFileContent: the scan of one file *)

\* lines 130-143: the block rule counts the line as comment
IsBlockComment(inBlock, trimmed, pat) ==
    /\ pat.blockStart # undefined /\ pat.blockEnd # undefined
    /\ inBlock \/ includes(trimmed, pat.blockStart)

BlockFlagAfter_ClosesAfterOneLine(inBlock, trimmed, pat) ==
    IF pat.blockStart # undefined /\ pat.blockEnd # undefined
    THEN IF inBlock THEN FALSE
         ELSE IF includes(trimmed, pat.blockStart)
              THEN ~includes(trimmed, pat.blockEnd)
              ELSE inBlock
    ELSE inBlock

BlockFlagAfter_ClosingLineReopens(inBlock, trimmed, pat) ==
    IF pat.blockStart # undefined /\ pat.blockEnd # undefined
    THEN IF inBlock
         THEN IF includes(trimmed, pat.blockEnd)
              THEN includes(trimmed, pat.blockStart)
              ELSE TRUE
         ELSE IF includes(trimmed, pat.blockStart)
              THEN ~includes(trimmed, pat.blockEnd)
              ELSE inBlock
    ELSE inBlock

BlockFlagAfter_EndSoughtAfterStart(inBlock, trimmed, pat) ==
    IF pat.blockStart # undefined /\ pat.blockEnd # undefined
    THEN IF inBlock THEN ~includes(trimmed, pat.blockEnd)
         ELSE IF includes(trimmed, pat.blockStart)
              THEN LET k == CHOOSE i \in 0..(Len(trimmed) - Len(pat.blockStart)) :
                               SubSeq(trimmed, i + 1, i + Len(pat.blockStart)) = pat.blockStart
                   IN  ~includes(SubSeq(trimmed, k + Len(pat.blockStart) + 1, Len(trimmed)),
                                 pat.blockEnd)
              ELSE inBlock
    ELSE inBlock

\* lines 130-143: inBlockComment after a non-blank line
BlockFlagAfter(inBlock, trimmed, pat) ==
    IF pat.blockStart # undefined /\ pat.blockEnd # undefined
    THEN IF inBlock THEN ~includes(trimmed, pat.blockEnd)
         ELSE IF includes(trimmed, pat.blockStart)
              THEN ~includes(trimmed, pat.blockEnd)
              ELSE inBlock
    ELSE inBlock

IsSingleComment_CaseSensitive(trimmed, pat) ==
    /\ pat.single # undefined
    /\ startsWith(trimmed, pat.single)

\* lines 146-151: the single-line rule counts the line as comment
IsSingleComment(trimmed, pat) ==
    /\ pat.single # undefined
    /\ \/ startsWith(trimmed, pat.single)
       \/ /\ pat.single = <<"R", "E", "M">>
          /\ startsWith(toLowerCase(trimmed), <<"r", "e", "m", " ">>)

Tally_NoContinue(st, kind, flagAfter) ==
    CASE kind = "blank" ->
            [st EXCEPT !.blankLines = @ + 1, !.codeLines = @ + 1, !.kind = kind]
      [] kind = "comment" ->
            [st EXCEPT !.commentLines = @ + 1, !.inBlockComment = flagAfter, !.kind = kind]
      [] OTHER ->
            [st EXCEPT !.codeLines = @ + 1, !.inBlockComment = flagAfter, !.kind = kind]

Tally_BlankInBlockIsComment(st, kind, flagAfter) ==
    CASE kind = "blank" /\ ~st.inBlockComment ->
            [st EXCEPT !.blankLines = @ + 1, !.kind = kind]
      [] kind = "comment" \/ kind = "blank" ->
            [st EXCEPT !.commentLines = @ + 1, !.inBlockComment = flagAfter,
                       !.kind = "comment"]
      [] OTHER ->
            [st EXCEPT !.codeLines = @ + 1, !.inBlockComment = flagAfter, !.kind = kind]

\* lines 122-125 and 153-157: count the line in its class; a blank line
\* leaves the block flag alone
Tally(st, kind, flagAfter) ==
    CASE kind = "blank" ->
            [st EXCEPT !.blankLines = @ + 1, !.kind = kind]
      [] kind = "comment" ->
            [st EXCEPT !.commentLines = @ + 1, !.inBlockComment = flagAfter, !.kind = kind]
      [] OTHER ->
            [st EXCEPT !.codeLines = @ + 1, !.inBlockComment = flagAfter, !.kind = kind]

\* Body of the for loop over the lines: the counters and the block flag
\* after `line`, with the class the line was counted in.
ScanLine(st, line, pat) ==
    LET trimmed == trim(line)
        isComment ==
            \/ IsBlockComment(st.inBlockComment, trimmed, pat)
            \/ IsSingleComment(trimmed, pat)
    IN  Tally(st,
              IF trimmed = <<>> THEN "blank"
              ELSE IF isComment THEN "comment" ELSE "code",
              BlockFlagAfter(st.inBlockComment, trimmed, pat))

ScanStart ==
    [blankLines |-> 0, commentLines |-> 0, codeLines |-> 0,
     inBlockComment |-> FALSE, kind |-> "none"]

RECURSIVE ScanAll(_, _, _)
ScanAll(st, ls, pat) ==
    IF ls = <<>> THEN st ELSE ScanAll(ScanLine(st, Head(ls), pat), Tail(ls), pat)

FileStats(name, lang, ls, st) ==
    [name |-> name, language |-> lang, lines |-> Len(ls),
     blank |-> st.blankLines, comment |-> st.commentLines, code |-> st.codeLines]

analyzeFileContent(text, name, lang) ==
    LET ls == split(text, "\n")
    IN  FileStats(name, lang, ls, ScanAll(ScanStart, ls, getCommentPatterns(lang)))

----------------------------------------------------------------------------
(* Inputs of the scan *)

\* one language per distinct comment grammar, and two that share one
LanguageInputs ==
    {"JavaScript", "C++", "C", "CSS", "Sass", "Python", "Ruby", "Shell",
     "Batch", "PowerShell", "HTML", "SQL", "Unknown"}

ExampleJs == 
    <<"a", "\n", "/", "/", " ", "c", "o", "m", "m", "e", "n", "t", "\n", "\n", "b", " ", "=", " ", "1", "\n">>

ExampleCpp == 
    <<"/", "*", " ", "s", "t", "a", "r", "t", "\n", "s", "t", "i", "l", "l", " ", "c", "o", "m", "m", "e", "n", "t", "\n", "e", "n", "d", " ", "*", "/", "\n", "c", "o", "d", "e", "(", ")", "\n">>

ExampleC == 
    <<"/", "*", " ", "n", "e", "v", "e", "r", " ", "c", "l", "o", "s", "e", "s", "\n", "l", "i", "n", "e", "2", "\n">>

ExampleBatch == 
    <<"R", "E", "M", " ", "n", "o", "t", "e", "\n", "r", "e", "m", " ", "a", "l", "s", "o", " ", "a", " ", "c", "o", "m", "m", "e", "n", "t", "\n", "e", "c", "h", "o", " ", "h", "i", "\n">>

\* a block that is opened and never closed, over blank, marker and code lines
ExampleUnterminated ==
    <<"x", "\n", "/", "*", " ", "a", "\n", "b", "\n", " ", "\n", "/", "/", " ", "c", "\n",
      "/", "*", " ", "d", "\n", "e">>

\* a Python docstring over several lines, followed by a comment and code
ExamplePython ==
    <<"\"", "\"", "\"", " ", "a", "\n", "b", "\n", "#", " ", "c", "\n", " ", "\n",
      "d", " ", "\"", "\"", "\"", "\n", "e">>

Examples ==
    {<<ExampleJs, "JavaScript">>, <<ExampleCpp, "C++">>, <<ExampleC, "C">>,
     <<ExampleBatch, "Batch">>, <<ExampleUnterminated, "C">>, <<ExampleUnterminated, "CSS">>,
     <<ExamplePython, "Python">>}

\* the single-line marker with only its first letter in upper case
Capitalised(s) == IF s = <<>> THEN s ELSE <<Head(s)>> \o toLowerCase(Tail(s))

\* the pieces generated contents are made of: the markers of the grammar, the
\* single-line marker in other cases, a letter, a blank and the newline
Tokens(lang) ==
    LET pat == getCommentPatterns(Str(lang))
    IN  ({pat.single, toLowerCase(pat.single), Capitalised(pat.single),
          pat.blockStart, pat.blockEnd} \ {undefined})
        \cup {<<"x">>, <<" ">>, <<"\n">>}

RECURSIVE Flatten(_)
Flatten(ss) == IF ss = <<>> THEN <<>> ELSE Head(ss) \o Flatten(Tail(ss))

TokenSeqs(lang) == UNION {[1..n -> Tokens(lang)] : n \in 0..MaxTokens}

ClassifyInputs ==
    Examples \cup
    UNION {{<<Flatten(toks), lang>> : toks \in TokenSeqs(lang)} : lang \in LanguageInputs}

ClassifyIdle ==
    /\ content = <<>> /\ language = null /\ lines = <<>> /\ lineIdx = 0
    /\ blankLines = 0 /\ commentLines = 0 /\ codeLines = 0
    /\ inBlockComment = FALSE /\ scanned = <<>> /\ stats = null /\ cpc = "idle"

ResolveIdle == filename = <<>> /\ ext = <<>> /\ detected = null /\ rpc = "idle"

AnalyzerIdle ==
    /\ files = <<>> /\ fileIdx = 0 /\ fileAnalyses = <<>> /\ languageStats = <<>>
    /\ failedIdx = {} /\ report = null /\ apc = "idle"

RenderIdle == renders = 0

IndexIdle ==
    /\ pageFiles = <<>> /\ isAnalyzing = FALSE /\ analysisResult = null
    /\ runs = <<>> /\ shownRun = 0 /\ acPc = "idle" /\ acRun = 0

UploadIdle ==
    procs = <<>> /\ selectedFiles = <<>> /\ isProcessing = FALSE /\ calls = <<>>

OtherIdle == RenderIdle /\ IndexIdle /\ UploadIdle

InitClassify ==
    /\ \E inp \in ClassifyInputs : content = inp[1] /\ language = Str(inp[2])
    /\ lines = <<>> /\ lineIdx = 0
    /\ blankLines = 0 /\ commentLines = 0 /\ codeLines = 0
    /\ inBlockComment = FALSE /\ scanned = <<>> /\ stats = null /\ cpc = "start"
    /\ ResolveIdle /\ AnalyzerIdle /\ OtherIdle

\* lines 110-116: split the content, zero the counters
SplitContent ==
    /\ cpc = "start"
    /\ lines' = split(content, "\n")
    /\ lineIdx' = 1
    /\ blankLines' = 0 /\ commentLines' = 0 /\ codeLines' = 0
    /\ inBlockComment' = FALSE
    /\ cpc' = "scan"
    /\ UNCHANGED <<content, language, scanned, stats>>
    /\ UNCHANGED <<resolveVars, analyzerVars, otherVars>>

\* lines 118-158: one iteration of the loop
ScanNextLine ==
    /\ cpc = "scan"
    /\ lineIdx <= Len(lines)
    /\ LET st == ScanLine([blankLines |-> blankLines, commentLines |-> commentLines,
                           codeLines |-> codeLines, inBlockComment |-> inBlockComment,
                           kind |-> "none"],
                          lines[lineIdx], getCommentPatterns(language))
       IN  /\ blankLines' = st.blankLines
           /\ commentLines' = st.commentLines
           /\ codeLines' = st.codeLines
           /\ inBlockComment' = st.inBlockComment
           /\ scanned' = Append(scanned, [kind |-> st.kind, inBlockBefore |-> inBlockComment])
    /\ lineIdx' = lineIdx + 1
    /\ UNCHANGED <<content, language, lines, stats, cpc>>
    /\ UNCHANGED <<resolveVars, analyzerVars, otherVars>>

\* lines 160-167: the loop is over, return the FileStats
ReturnStats ==
    /\ cpc = "scan"
    /\ lineIdx > Len(lines)
    /\ stats' = FileStats(<<>>, language, lines,
                          [blankLines |-> blankLines, commentLines |-> commentLines,
                           codeLines |-> codeLines, inBlockComment |-> inBlockComment,
                           kind |-> "none"])
    /\ cpc' = "done"
    /\ UNCHANGED <<content, language, lines, lineIdx, blankLines, commentLines,
                   codeLines, inBlockComment, scanned>>
    /\ UNCHANGED <<resolveVars, analyzerVars, otherVars>>

NextClassify == SplitContent \/ ScanNextLine \/ ReturnStats

SpecClassify == InitClassify /\ [][NextClassify]_vars

----------------------------------------------------------------------------
(* Properties of the scan *)

NewlineCount(s) == Cardinality({i \in 1..Len(s) : s[i] = "\n"})

EndsWithNewline(s) == s # <<>> /\ s[Len(s)] = "\n"

HasDistinctBlockMarkers(pat) ==
    /\ pat.blockStart # undefined /\ pat.blockEnd # undefined
    /\ pat.blockStart # pat.blockEnd

\* C1: blank + comment + code equals the number of lines: after every
\* processed line for the lines seen so far, and in the returned FileStats,
\* whose lines field is the number of pieces of the split on the newline
\* character (one more than the newlines, so at least 1).
C1_CountsPartitionLines ==
    /\ cpc = "scan" => blankLines + commentLines + codeLines = lineIdx - 1
    /\ cpc = "done" =>
          /\ stats.blank + stats.comment + stats.code = stats.lines
          /\ stats.lines = NewlineCount(content) + 1
          /\ stats.lines >= 1

C1_Witness ==
    /\ cpc = "done"
    /\ stats.blank > 0 /\ stats.comment > 0 /\ stats.code > 0

\* C3: the JavaScript example has 4 lines, 1 blank, 1 comment and 2 code,
\* and a content ending with a newline has one line per newline: the final
\* newline adds no blank line.
C3_TrailingNewlineAddsNoLine ==
    cpc = "done" =>
        /\ (content = ExampleJs /\ language = Str("JavaScript")) =>
              /\ stats.lines = 4 /\ stats.blank = 1
              /\ stats.comment = 1 /\ stats.code = 2
        /\ EndsWithNewline(content) => stats.lines = NewlineCount(content)

\* C4: the C++ example has 3 comment lines (the block from its opening to
\* its closing line), 1 code line (the line after the closing line) and no
\* blank line.
C4_BlockExampleCounts ==
    (cpc = "done" /\ content = ExampleCpp /\ language = Str("C++")) =>
        /\ \A i \in 1..3 : scanned[i].kind = "comment"
        /\ scanned[4].kind = "code"
        /\ stats.comment = 3 /\ stats.code = 1 /\ stats.blank = 0

\* line i opened a block, outside a block, without closing it
OpensBlock(i, pat) ==
    LET trimmed == trim(lines[i])
    IN  /\ trimmed # <<>>
        /\ ~scanned[i].inBlockBefore
        /\ includes(trimmed, pat.blockStart)
        /\ ~includes(trimmed, pat.blockEnd)

\* C5: with distinct block markers, after a line that opens a block and as
\* long as no later line contains the end marker, no line is counted as code
\* and every non-blank line is counted as comment; the C example gives 2
\* comment lines and no code line; the scan is never stuck before it returns.
C5_UnterminatedBlockRunsToEnd ==
    LET pat == getCommentPatterns(language)
    IN  /\ (cpc \in {"scan", "done"} /\ HasDistinctBlockMarkers(pat)) =>
              \A i \in 1..Len(scanned) : \A j \in (i + 1)..Len(scanned) :
                  (/\ OpensBlock(i, pat)
                   /\ \A k \in (i + 1)..j : ~includes(trim(lines[k]), pat.blockEnd))
                  => /\ scanned[j].kind # "code"
                     /\ trim(lines[j]) # <<>> => scanned[j].kind = "comment"
        /\ (cpc = "done" /\ content = ExampleC /\ language = Str("C")) =>
              stats.comment = 2 /\ stats.code = 0
        /\ cpc \in {"start", "scan"} => ENABLED (SplitContent \/ ScanNextLine \/ ReturnStats)

C5_Witness ==
    LET pat == getCommentPatterns(language)
    IN  /\ cpc = "done"
        /\ HasDistinctBlockMarkers(pat)
        /\ \E i \in 1..Len(scanned) : \E j \in (i + 2)..Len(scanned) :
              /\ OpensBlock(i, pat)
              /\ \A k \in (i + 1)..j : ~includes(trim(lines[k]), pat.blockEnd)
              /\ trim(lines[j]) # <<>>
              /\ ~startsWith(trim(lines[j]), pat.single)
              /\ scanned[j].kind = "comment"

\* C6: in a Batch file a non-blank line is a comment exactly when its
\* trimmed form starts with "REM" or its trimmed lowercase form starts with
\* "rem "; the Batch example has 2 comment lines and 1 code line.
C6_BatchRemAnyCase ==
    /\ (language = Str("Batch") /\ cpc \in {"scan", "done"}) =>
          \A j \in 1..Len(scanned) :
              LET trimmed == trim(lines[j])
              IN  trimmed # <<>> =>
                    /\ scanned[j].kind \in {"comment", "code"}
                    /\ scanned[j].kind = "comment" <=>
                          \/ startsWith(trimmed, <<"R", "E", "M">>)
                          \/ startsWith(toLowerCase(trimmed), <<"r", "e", "m", " ">>)
    /\ (cpc = "done" /\ content = ExampleBatch /\ language = Str("Batch")) =>
          stats.comment = 2 /\ stats.code = 1

C6_Witness ==
    /\ cpc = "done" /\ content = ExampleBatch /\ language = Str("Batch")
    /\ scanned[2].kind = "comment"
    /\ stats.comment = 2 /\ stats.code = 1

----------------------------------------------------------------------------
(* getLanguageFromExtension as a process *)

\* the pieces generated file names are made of
NameTokens ==
    {<<".">>,
     <<"a">>,
     <<"p", "y">>,
     <<"P", "y">>,
     <<"c">>,
     <<"s", "h">>,
     <<"M", "a", "k", "e", "f", "i", "l", "e">>,
     <<"x", "y", "z">>,
     <<"J", "S">>,
     <<"c", "o", "n", "s", "t", "r", "u", "c", "t", "o", "r">>,
     <<"t", "o", "s", "t", "r", "i", "n", "g">>,
     <<"_", "_", "p", "r", "o", "t", "o", "_", "_">>}

FileNames == {Flatten(toks) : toks \in UNION {[1..n -> NameTokens] : n \in 1..MaxNameTokens}}

InitResolve ==
    /\ filename \in FileNames
    /\ ext = <<>> /\ detected = null /\ rpc = "start"
    /\ ClassifyIdle /\ AnalyzerIdle /\ OtherIdle

\* line 26
ExtractExtension ==
    /\ rpc = "start"
    /\ ext' = Extension(filename)
    /\ rpc' = "lookup"
    /\ UNCHANGED <<filename, detected>>
    /\ UNCHANGED <<classifyVars, analyzerVars, otherVars>>

\* line 68
ReturnLanguage ==
    /\ rpc = "lookup"
    /\ detected' = LookupLanguage(ext)
    /\ rpc' = "done"
    /\ UNCHANGED <<filename, ext>>
    /\ UNCHANGED <<classifyVars, analyzerVars, otherVars>>

NextResolve == ExtractExtension \/ ReturnLanguage

SpecResolve == InitResolve /\ [][NextResolve]_vars

HasDot(name) == \E i \in 1..Len(name) : name[i] = "."

\* the characters after the last '.' of a name that has one
AfterLastDot(name) ==
    LET k == CHOOSE i \in 1..Len(name) :
                 name[i] = "." /\ \A j \in (i + 1)..Len(name) : name[j] # "."
    IN  SubSeq(name, k + 1, Len(name))

\* C7: the extension is the lowercased text after the last '.', and it is
\* empty for a name without '.', which therefore resolves to "Unknown".
C7_NoDotNoExtension ==
    /\ rpc \in {"lookup", "done"} =>
          ext = IF HasDot(filename) THEN toLowerCase(AfterLastDot(filename)) ELSE <<>>
    /\ (rpc = "done" /\ ~HasDot(filename)) => detected = Str("Unknown")

\* C8: the result is always a language label string: the mapped label for
\* an extension of the table and "Unknown" for every other extension.
C8_ResolverTotal ==
    rpc = "done" =>
        /\ detected.type = "string"
        /\ ext \in DOMAIN languageMap => detected = Str(languageMap[ext])
        /\ ext \notin DOMAIN languageMap => detected = Str("Unknown")

----------------------------------------------------------------------------
(* useCodeAnalyzer *)

\* languageStats is the insertion-ordered list of the entries of the object:
\* Object.values visits string keys in the order they were added.  No key is
\* a name the empty object inherits: keys are labels of languageMap,
\* "Unknown", or the string conversions of PropertyKey.
ZeroStats == [files |-> 0, blank |-> 0, comment |-> 0, code |-> 0, total |-> 0]

HasEntry(ls, key) == \E i \in 1..Len(ls) : ls[i].key = key

AddFile_Overwrite(ls, analysis) ==
    LET key == PropertyKey(analysis.language)
        created == IF HasEntry(ls, key) THEN ls
                   ELSE Append(ls, [key |-> key, stats |-> ZeroStats])
    IN  [i \in 1..Len(created) |->
            IF created[i].key = key
            THEN [key |-> key,
                  stats |-> [files |-> created[i].stats.files + 1,
                             blank |-> created[i].stats.blank + analysis.blank,
                             comment |-> created[i].stats.comment + analysis.comment,
                             code |-> created[i].stats.code + analysis.code,
                             total |-> analysis.lines]]
            ELSE created[i]]

\* lines 191-205: create the entry of the language on its first file, then
\* add the file to it
AddFile(ls, analysis) ==
    LET key == PropertyKey(analysis.language)
        created == IF HasEntry(ls, key) THEN ls
                   ELSE Append(ls, [key |-> key, stats |-> ZeroStats])
    IN  [i \in 1..Len(created) |->
            IF created[i].key = key
            THEN [key |-> key,
                  stats |-> [files |-> created[i].stats.files + 1,
                             blank |-> created[i].stats.blank + analysis.blank,
                             comment |-> created[i].stats.comment + analysis.comment,
                             code |-> created[i].stats.code + analysis.code,
                             total |-> created[i].stats.total + analysis.lines]]
            ELSE created[i]]

RECURSIVE CalculateTotals_FromFirst(_)
CalculateTotals_FromFirst(ls) ==
    IF ls = <<>> THEN ZeroStats
    ELSE LET acc == IF Len(ls) = 1 THEN ls[1].stats
                    ELSE CalculateTotals_FromFirst(SubSeq(ls, 1, Len(ls) - 1))
             st == ls[Len(ls)].stats
         IN  [files |-> acc.files + st.files, blank |-> acc.blank + st.blank,
              comment |-> acc.comment + st.comment, code |-> acc.code + st.code,
              total |-> acc.total + st.total]

\* lines 212-221: Object.values(languageStats).reduce from the zero record
RECURSIVE CalculateTotals(_)
CalculateTotals(ls) ==
    IF ls = <<>> THEN ZeroStats
    ELSE LET acc == CalculateTotals(SubSeq(ls, 1, Len(ls) - 1))
             st == ls[Len(ls)].stats
         IN  [files |-> acc.files + st.files, blank |-> acc.blank + st.blank,
              comment |-> acc.comment + st.comment, code |-> acc.code + st.code,
              total |-> acc.total + st.total]

\* the files handed to the hook: names with a known, a repeated, an upper
\* case and an inherited extension; contents of different sizes
InputNames ==
    {<<"a", ".", "j", "s">>, <<"B", ".", "J", "S">>,
     <<"m", ".", "p", "y">>,
     <<"x", ".", "c", "o", "n", "s", "t", "r", "u", "c", "t", "o", "r">>}

InputContents ==
    {<<"x", "\n", "/", "/", " ", "c", "\n">>,
     <<"/", "*", "\n", "\n", "*", "/", " ", "y", "\n", "#", "\n", "z">>}

FileInputs == {[name |-> n, content |-> c] : n \in InputNames, c \in InputContents}

Init ==
    /\ files \in UNION {[1..n -> FileInputs] : n \in 0..MaxFiles}
    /\ fileIdx = 1
    /\ fileAnalyses = <<>> /\ languageStats = <<>>
    /\ failedIdx = {} /\ report = null /\ apc = "loop"
    /\ ClassifyIdle /\ ResolveIdle /\ OtherIdle

\* lines 185-205: file.text() resolves; classify the file and add it
AnalyzeFile ==
    /\ apc = "loop"
    /\ fileIdx <= Len(files)
    /\ LET file == files[fileIdx]
           lang == getLanguageFromExtension(file.name)
           analysis == analyzeFileContent(file.content, file.name, lang)
       IN  /\ fileAnalyses' = Append(fileAnalyses, analysis)
           /\ languageStats' = AddFile(languageStats, analysis)
    /\ fileIdx' = fileIdx + 1
    /\ UNCHANGED <<files, failedIdx, report, apc>>
    /\ UNCHANGED <<classifyVars, resolveVars, otherVars>>

ReadFails_Abort ==
    /\ apc = "loop"
    /\ fileIdx <= Len(files)
    /\ failedIdx' = failedIdx \cup {fileIdx}
    /\ fileIdx' = Len(files) + 1
    /\ UNCHANGED <<files, fileAnalyses, languageStats, report, apc>>
    /\ UNCHANGED <<classifyVars, resolveVars, otherVars>>

\* lines 185 and 206-208: file.text() rejects; the catch logs the error and
\* the loop goes on with the next file
ReadFails ==
    /\ apc = "loop"
    /\ fileIdx <= Len(files)
    /\ failedIdx' = failedIdx \cup {fileIdx}
    /\ fileIdx' = fileIdx + 1
    /\ UNCHANGED <<files, fileAnalyses, languageStats, report, apc>>
    /\ UNCHANGED <<classifyVars, resolveVars, otherVars>>

\* lines 211-227: the loop is over; calculate totals and return the result
ReturnResult ==
    /\ apc = "loop"
    /\ fileIdx > Len(files)
    /\ report' = [languages |-> languageStats,
                  total |-> CalculateTotals(languageStats),
                  files |-> fileAnalyses]
    /\ apc' = "done"
    /\ UNCHANGED <<files, fileIdx, fileAnalyses, languageStats, failedIdx>>
    /\ UNCHANGED <<classifyVars, resolveVars, otherVars>>

Next == AnalyzeFile \/ ReadFails \/ ReturnResult

Spec == Init /\ [][Next]_vars

----------------------------------------------------------------------------
(* Properties of the aggregation *)

RECURSIVE SumInts(_)
SumInts(ns) == IF ns = <<>> THEN 0 ELSE Head(ns) + SumInts(Tail(ns))

\* the values of one field over a sequence of records
Column(rs, field) == [i \in 1..Len(rs) |-> rs[i][field]]

LanguageEntries(r) == [i \in 1..Len(r.languages) |-> r.languages[i].stats]

\* C2: every field of the grand total is the sum of the field over the
\* language entries and over the file entries, total.files is the number of
\* file entries, and no file gives the all-zero total.
C2_TotalIsSumOfParts ==
    apc = "done" =>
        /\ \A f \in {"files", "blank", "comment", "code", "total"} :
              report.total[f] = SumInts(Column(LanguageEntries(report), f))
        /\ \A f \in {"blank", "comment", "code"} :
              report.total[f] = SumInts(Column(report.files, f))
        /\ report.total.total = SumInts(Column(report.files, "lines"))
        /\ report.total.files = Len(report.files)
        /\ files = <<>> => report.total = ZeroStats

C2_Witness ==
    /\ apc = "done"
    /\ Len(report.files) >= 2 /\ Len(report.languages) >= 2
    /\ report.total.blank > 0 /\ report.total.comment > 0 /\ report.total.code > 0

\* the loop of useCodeAnalyzer over files that were all read
RECURSIVE Aggregate(_)
Aggregate(fs) ==
    IF fs = <<>> THEN <<>>
    ELSE AddFile(Aggregate(SubSeq(fs, 1, Len(fs) - 1)), fs[Len(fs)])

Orderings(n) == {p \in [1..n -> 1..n] : \A i, j \in 1..n : i # j => p[i] # p[j]}

Keys(ls) == {ls[i].key : i \in 1..Len(ls)}

EntryOf(ls, key) == ls[CHOOSE i \in 1..Len(ls) : ls[i].key = key].stats

\* C9: aggregating the classified files in any other order gives the same
\* language keys, the same five counters for each language and the same
\* grand total.
C9_AggregationOrderInvariant ==
    apc = "done" =>
        \A p \in Orderings(Len(report.files)) :
            LET permuted == [i \in 1..Len(report.files) |-> report.files[p[i]]]
                ls == Aggregate(permuted)
            IN  /\ Keys(ls) = Keys(report.languages)
                /\ \A key \in Keys(ls) : EntryOf(ls, key) = EntryOf(report.languages, key)
                /\ CalculateTotals(ls) = report.total

C9_Witness ==
    /\ apc = "done"
    /\ Len(report.languages) >= 2
    /\ \E i, j \in 1..Len(report.files) :
          /\ i < j
          /\ PropertyKey(report.files[i].language) = PropertyKey(report.files[j].language)
          /\ report.files[i].lines # report.files[j].lines

\* the FileStats of the first n files whose read succeeded, in input order
RECURSIVE Survivors(_)
Survivors(n) ==
    IF n = 0 THEN <<>>
    ELSE IF n \in failedIdx THEN Survivors(n - 1)
    ELSE Append(Survivors(n - 1),
                analyzeFileContent(files[n].content, files[n].name,
                                   getLanguageFromExtension(files[n].name)))

\* C10: a file whose read fails adds no entry and changes no language
\* counter, and the loop goes on: the files of the result are the FileStats
\* of the files that were read, in input order, and the language entries
\* are the aggregation of exactly these.
C10_FailedReadIsSkipped ==
    /\ apc = "loop" =>
          /\ fileAnalyses = Survivors(fileIdx - 1)
          /\ languageStats = Aggregate(fileAnalyses)
    /\ apc = "done" =>
          /\ failedIdx \subseteq 1..Len(files)
          /\ report.files = Survivors(Len(files))
          /\ report.languages = Aggregate(report.files)
          /\ Len(report.files) = Len(files) - Cardinality(failedIdx)

C10_Witness ==
    /\ apc = "done"
    /\ \E j \in failedIdx : \E k \in (j + 1)..Len(files) : k \notin failedIdx
    /\ Len(report.files) >= 1

----------------------------------------------------------------------------
(* Properties of the block flag *)

\* inBlockComment after the j-th scanned line
FlagAfter(j) == IF j < Len(scanned) THEN scanned[j + 1].inBlockBefore ELSE inBlockComment

\* C13: a line whose trimmed form is empty is counted as blank, never as
\* comment or code, also inside a block comment, and it leaves
\* inBlockComment as it was.
C13_BlankLineKeepsFlag ==
    cpc \in {"scan", "done"} =>
        \A j \in 1..Len(scanned) :
            trim(lines[j]) = <<>> =>
                /\ scanned[j].kind = "blank"
                /\ FlagAfter(j) = scanned[j].inBlockBefore

C13_Witness ==
    /\ cpc = "done"
    /\ \E j \in 1..Len(scanned) :
          /\ trim(lines[j]) = <<>>
          /\ lines[j] # <<>>
          /\ scanned[j].inBlockBefore
          /\ scanned[j].kind = "blank"
          /\ FlagAfter(j)

\* C14: a non-blank line scanned inside a block is counted as comment; the
\* flag is false after it when the line contains the block-end marker, also
\* when it contains the block-start marker too, and stays true otherwise.
C14_ClosingLineNeverReopens ==
    cpc \in {"scan", "done"} =>
        \A j \in 1..Len(scanned) :
            LET trimmed == trim(lines[j])
            IN  (scanned[j].inBlockBefore /\ trimmed # <<>>) =>
                    /\ scanned[j].kind = "comment"
                    /\ FlagAfter(j) = ~includes(trimmed, getCommentPatterns(language).blockEnd)

C14_Witness ==
    /\ cpc = "done"
    /\ \E j \in 1..Len(scanned) :
          LET trimmed == trim(lines[j])
              pat == getCommentPatterns(language)
          IN  /\ scanned[j].inBlockBefore
              /\ includes(trimmed, pat.blockEnd)
              /\ includes(trimmed, pat.blockStart)
              /\ scanned[j].kind = "comment"
              /\ ~FlagAfter(j)

HasSameBlockMarkers(pat) ==
    pat.blockStart # undefined /\ pat.blockStart = pat.blockEnd

\* C17: when the block-start marker is also the block-end marker (Python),
\* inBlockComment is false after every scanned line, and a non-blank line
\* is a comment exactly when it contains the marker or starts with the
\* single-line marker: the lines between two marker lines are code unless
\* they start with '#'.
C17_SameMarkerNeverStaysOpen ==
    LET pat == getCommentPatterns(language)
    IN  (cpc \in {"scan", "done"} /\ HasSameBlockMarkers(pat)) =>
            /\ ~inBlockComment
            /\ \A j \in 1..Len(scanned) :
                  LET trimmed == trim(lines[j])
                  IN  /\ ~scanned[j].inBlockBefore
                      /\ trimmed # <<>> =>
                            (scanned[j].kind = "comment" <=>
                                \/ includes(trimmed, pat.blockStart)
                                \/ startsWith(trimmed, pat.single))

C17_Witness ==
    /\ cpc = "done" /\ language = Str("Python")
    /\ \E i \in 1..Len(scanned) : \E j \in (i + 1)..Len(scanned) :
       \E k \in (j + 1)..Len(scanned) :
          /\ includes(lines[i], getCommentPatterns(language).blockStart)
          /\ includes(lines[k], getCommentPatterns(language).blockEnd)
          /\ scanned[j].kind = "code"

----------------------------------------------------------------------------
(* AnalysisResults: rendering the result of useCodeAnalyzer *)

\* where Array.prototype.sort with (a, b) => b.code - a.code puts x among the
\* already sorted entries: behind every entry with at least as much code
\* (the sort is stable)
InsertByCode(sorted, x) ==
    LET before == Cardinality({i \in 1..Len(sorted) : sorted[i].code >= x.code})
    IN  SubSeq(sorted, 1, before) \o <<x>> \o SubSeq(sorted, before + 1, Len(sorted))

\* the array after result.files.sort((a, b) => b.code - a.code): sort works
\* in place, on the files array of the result itself
RECURSIVE SortByCode(_)
SortByCode(fs) ==
    IF fs = <<>> THEN <<>>
    ELSE InsertByCode(SortByCode(SubSeq(fs, 1, Len(fs) - 1)), fs[Len(fs)])

\* part_001 lines 13-213: one rendering of the returned result; the language
\* table and the charts are built from copies, the file table sorts
\* result.files itself
RenderResults ==
    /\ apc = "done"
    /\ renders < MaxRenders
    /\ report' = [report EXCEPT !.files = SortByCode(@)]
    /\ renders' = renders + 1
    /\ UNCHANGED <<files, fileIdx, fileAnalyses, languageStats, failedIdx, apc>>
    /\ UNCHANGED <<classifyVars, resolveVars, indexVars, uploadVars>>

NextRender == AnalyzeFile \/ ReadFails \/ ReturnResult \/ RenderResults

SpecRender == Init /\ [][NextRender]_vars

\* C12: once useCodeAnalyzer has returned the result, nothing changes it:
\* its files stay in input order and its counters stay as they are, however
\* often it is rendered.
C12_ReportImmutable == [][apc = "done" => report' = report]_vars

----------------------------------------------------------------------------
(* Index: the page that selects files, analyzes them and shows the result *)

\* The promise of one call of the async function of useCodeAnalyzer.  The
\* function runs up to its first await when it is called, and from a
\* settled file.text() up to the next await or the return.
FinishRun(run) ==
    IF run.fileIdx > Len(run.files)
    THEN [run EXCEPT !.status = "resolved",
                     !.result = [languages |-> run.languageStats,
                                 total |-> CalculateTotals(run.languageStats),
                                 files |-> run.fileAnalyses]]
    ELSE run

\* CodeAnalyzer.tsx lines 171-183: useMemo calls the function for a new
\* files array
NewRun(fs) ==
    FinishRun([files |-> fs, fileIdx |-> 1, fileAnalyses |-> <<>>,
               languageStats |-> <<>>, status |-> "running", result |-> null])

\* CodeAnalyzer.tsx lines 185-227: file.text() resolved
RunAfterRead(run) ==
    LET file == run.files[run.fileIdx]
        lang == getLanguageFromExtension(file.name)
        analysis == analyzeFileContent(file.content, file.name, lang)
    IN  FinishRun([run EXCEPT !.fileAnalyses = Append(@, analysis),
                              !.languageStats = AddFile(@, analysis),
                              !.fileIdx = @ + 1])

\* CodeAnalyzer.tsx lines 185, 206-227: file.text() rejected
RunAfterFailedRead(run) == FinishRun([run EXCEPT !.fileIdx = @ + 1])

PageFileA == [name |-> <<"a", ".", "j", "s">>, content |-> <<"x", "\n", "/", "/", " ", "c", "\n">>]

PageFileB ==
    [name |-> <<"m", ".", "p", "y">>,
     content |-> <<"/", "*", "\n", "\n", "*", "/", " ", "y", "\n", "#", "\n", "z">>]

\* the arrays FileUpload hands to onFilesSelected
PageSelections ==
    {<<>>, <<PageFileA>>, <<PageFileB>>, <<PageFileA, PageFileB>>, <<PageFileB, PageFileA>>}

\* part_000 lines 11-15: the first render, with files = []
InitIndex ==
    /\ pageFiles = <<>> /\ isAnalyzing = FALSE /\ analysisResult = null
    /\ runs = <<NewRun(<<>>)>>
    /\ shownRun = 0 /\ acPc = "idle" /\ acRun = 0
    /\ ClassifyIdle /\ ResolveIdle /\ AnalyzerIdle /\ RenderIdle /\ UploadIdle

\* part_000 lines 17-20 and the render that follows: the new files array
\* makes useMemo call the analysis function again
HandleFilesSelected ==
    /\ Len(runs) <= MaxSelections
    /\ \E selection \in PageSelections :
          /\ pageFiles' = selection
          /\ runs' = Append(runs, NewRun(selection))
    /\ analysisResult' = null
    /\ shownRun' = 0
    /\ UNCHANGED <<isAnalyzing, acPc, acRun>>
    /\ UNCHANGED <<classifyVars, resolveVars, analyzerVars, renderVars, uploadVars>>

\* part_000 lines 22-34: a click on the button, which is rendered when
\* files.length > 0 and enabled when isAnalyzing is false; the handler stops
\* at the await of the promise of the current render
AnalyzeCodeStart ==
    /\ acPc = "idle"
    /\ pageFiles # <<>>
    /\ ~isAnalyzing
    /\ isAnalyzing' = TRUE
    /\ acPc' = "await"
    /\ acRun' = Len(runs)
    /\ UNCHANGED <<pageFiles, analysisResult, runs, shownRun>>
    /\ UNCHANGED <<classifyVars, resolveVars, analyzerVars, renderVars, uploadVars>>

\* a file.text() of a pending analysis resolves
RunReadResolves ==
    /\ \E r \in 1..Len(runs) :
          /\ runs[r].status = "running"
          /\ runs' = [runs EXCEPT ![r] = RunAfterRead(@)]
    /\ UNCHANGED <<pageFiles, isAnalyzing, analysisResult, shownRun, acPc, acRun>>
    /\ UNCHANGED <<classifyVars, resolveVars, analyzerVars, renderVars, uploadVars>>

\* a file.text() of a pending analysis rejects
RunReadRejects ==
    /\ \E r \in 1..Len(runs) :
          /\ runs[r].status = "running"
          /\ runs' = [runs EXCEPT ![r] = RunAfterFailedRead(@)]
    /\ UNCHANGED <<pageFiles, isAnalyzing, analysisResult, shownRun, acPc, acRun>>
    /\ UNCHANGED <<classifyVars, resolveVars, analyzerVars, renderVars, uploadVars>>

\* part_000 lines 34-49: the awaited promise has resolved; store the result
\* and clear isAnalyzing.  The render that follows shows the result with
\* AnalysisResults, which sorts its files array (part_001 lines 192-193).
AnalyzeCodeResume ==
    /\ acPc = "await"
    /\ runs[acRun].status = "resolved"
    /\ LET shown == [runs[acRun].result EXCEPT !.files = SortByCode(@)]
       IN  /\ analysisResult' = shown
           /\ runs' = [runs EXCEPT ![acRun].result = shown]
    /\ shownRun' = acRun
    /\ isAnalyzing' = FALSE
    /\ acPc' = "idle"
    /\ UNCHANGED <<pageFiles, acRun>>
    /\ UNCHANGED <<classifyVars, resolveVars, analyzerVars, renderVars, uploadVars>>

NextIndex ==
    \/ HandleFilesSelected
    \/ AnalyzeCodeStart
    \/ RunReadResolves
    \/ RunReadRejects
    \/ AnalyzeCodeResume

SpecIndex == InitIndex /\ [][NextIndex]_vars

\* C15: whenever the page holds a result, it is the result of the analysis
\* of the files that are selected now, never that of an earlier selection.
C15_NoStaleResult ==
    analysisResult # null =>
        /\ shownRun = Len(runs)
        /\ analysisResult = runs[Len(runs)].result

----------------------------------------------------------------------------
(* FileUpload: processFiles (part_001 lines 240-294) *)

endsWith(s, q) == Len(q) <= Len(s) /\ SubSeq(s, Len(s) - Len(q) + 1, Len(s)) = q

\* lines 245, 262: what kind of input a file is taken for
InputKind(file) ==
    IF endsWith(file.name, <<".", "z", "i", "p">>) THEN "zip"
    ELSE IF endsWith(file.name, <<".", "t", "a", "r">>) THEN "tar"
    ELSE "plain"

\* lines 252, 270: path.split('/').pop() || path
BaseName(path) ==
    LET pieces == split(path, "/")
    IN  IF pieces[Len(pieces)] = <<>> THEN path ELSE pieces[Len(pieces)]

\* The files a user can drop.  entries is what the file holds: the text of a
\* plain file, the entries of an archive; hasData is false for a directory
\* of a zip and for a tar entry without buffer.
PlainInput ==
    [name |-> <<"a", ".", "j", "s">>,
     entries |-> <<[path |-> <<"a", ".", "j", "s">>, hasData |-> TRUE,
                    content |-> <<"x", "\n", "/", "/", " ", "c", "\n">>]>>]

ZipInput ==
    [name |-> <<"z", ".", "z", "i", "p">>,
     entries |-> <<[path |-> <<"d", "/">>, hasData |-> FALSE, content |-> <<>>],
                   [path |-> <<"d", "/", "m", ".", "p", "y">>, hasData |-> TRUE,
                    content |-> <<"/", "*", "\n", "\n", "*", "/", " ", "y", "\n", "#", "\n", "z">>],
                   [path |-> <<"r", ".", "j", "s">>, hasData |-> TRUE,
                    content |-> <<"x", "\n", "/", "/", " ", "c", "\n">>]>>]

TarInput ==
    [name |-> <<"t", ".", "t", "a", "r">>,
     entries |-> <<[path |-> <<"e", "/", "c", ".", "c">>, hasData |-> TRUE,
                    content |-> <<"x", "\n", "/", "/", " ", "c", "\n">>],
                   [path |-> <<"e", "/">>, hasData |-> FALSE, content |-> <<>>]>>]

UploadInputs == {PlainInput, ZipInput, TarInput}

UploadBatches == UNION {[1..n -> UploadInputs] : n \in 0..MaxInputs}

\* the first entry with data behind entry k of the file, 0 when there is none
NextEntry(file, k) ==
    IF \E j \in (k + 1)..Len(file.entries) : file.entries[j].hasData
    THEN CHOOSE j \in (k + 1)..Len(file.entries) :
             /\ file.entries[j].hasData
             /\ \A i \in (k + 1)..(j - 1) : ~file.entries[i].hasData
    ELSE 0

\* lines 251-256, 269-274: the ProcessedFile of an archive entry
ArchiveEntry(file, entry) ==
    [name |-> BaseName(entry.path), content |-> entry.content,
     path |-> entry.path, originalFile |-> file.name]

\* lines 282-287: the ProcessedFile of a plain file
PlainEntry(file) ==
    [name |-> file.name, content |-> file.entries[1].content,
     path |-> file.name, originalFile |-> file.name]

\* the loop goes to the next file; behind the last file the invocation
\* reaches lines 291-293
NextFile(proc) ==
    LET next == [proc EXCEPT !.idx = @ + 1, !.zpos = 0]
    IN  IF next.idx > Len(next.inputs) THEN [next EXCEPT !.status = "completed"] ELSE next

\* lines 241-244: an invocation up to its first await
NewProc(inputs) ==
    NextFile([inputs |-> inputs, idx |-> 0, zpos |-> 0, processedFiles |-> <<>>,
              status |-> "running", failed |-> {}])

\* lines 247-249: JSZip.loadAsync resolved; go to the first entry with data
AfterZipLoad(proc) ==
    LET j == NextEntry(proc.inputs[proc.idx], 0)
    IN  IF j = 0 THEN NextFile(proc) ELSE [proc EXCEPT !.zpos = j]

\* lines 250-258: zipFile.async('text') resolved; push, go to the next entry
AfterZipEntry(proc) ==
    LET file == proc.inputs[proc.idx]
        pushed == [proc EXCEPT !.processedFiles =
                                   Append(@, ArchiveEntry(file, file.entries[proc.zpos]))]
        j == NextEntry(file, proc.zpos)
    IN  IF j = 0 THEN NextFile(pushed) ELSE [pushed EXCEPT !.zpos = j]

\* lines 259-261, 277-279: the catch of an archive; what was pushed stays
AfterArchiveFailure(proc) == NextFile([proc EXCEPT !.failed = @ \cup {proc.idx}])

\* the entries with data of the first k entries, in order
RECURSIVE TarEntries(_, _)
TarEntries(file, k) ==
    IF k = 0 THEN <<>>
    ELSE IF file.entries[k].hasData
    THEN Append(TarEntries(file, k - 1), ArchiveEntry(file, file.entries[k]))
    ELSE TarEntries(file, k - 1)

\* lines 264-276: file.arrayBuffer() resolved and Tar.read returned
AfterTarRead(proc) ==
    LET file == proc.inputs[proc.idx]
    IN  NextFile([proc EXCEPT !.processedFiles = @ \o TarEntries(file, Len(file.entries))])

\* lines 281-287: file.text() resolved
AfterPlainRead(proc) ==
    NextFile([proc EXCEPT !.processedFiles = Append(@, PlainEntry(proc.inputs[proc.idx]))])

\* line 281: file.text() rejected outside any try: processFiles rejects
AfterPlainFailure(proc) ==
    [proc EXCEPT !.status = "rejected", !.failed = @ \cup {proc.idx}]

\* invocation p goes on as proc; lines 291-293 when it has left the loop
Continue(p, proc) ==
    /\ procs' = [procs EXCEPT ![p] = proc]
    /\ IF proc.status = "completed"
       THEN /\ selectedFiles' = proc.processedFiles
            /\ calls' = Append(calls, [by |-> p, list |-> proc.processedFiles])
            /\ isProcessing' = FALSE
       ELSE UNCHANGED <<selectedFiles, isProcessing, calls>>
    /\ UNCHANGED <<classifyVars, resolveVars, analyzerVars, renderVars, indexVars>>

Pending(p, kind) ==
    /\ procs[p].status = "running"
    /\ InputKind(procs[p].inputs[procs[p].idx]) = kind

InitUpload ==
    /\ procs = <<>> /\ selectedFiles = <<>> /\ isProcessing = FALSE /\ calls = <<>>
    /\ ClassifyIdle /\ ResolveIdle /\ AnalyzerIdle /\ RenderIdle /\ IndexIdle

\* lines 296-316: a drop or a selection calls processFiles, which sets
\* isProcessing and runs to its first await
ProcessFiles ==
    /\ Len(procs) < MaxInvocations
    /\ \E inputs \in UploadBatches :
          LET proc == NewProc(inputs)
          IN  /\ procs' = Append(procs, proc)
              /\ IF proc.status = "completed"
                 THEN /\ selectedFiles' = proc.processedFiles
                      /\ calls' = Append(calls, [by |-> Len(procs) + 1,
                                                 list |-> proc.processedFiles])
                      /\ isProcessing' = FALSE
                 ELSE /\ isProcessing' = TRUE
                      /\ UNCHANGED <<selectedFiles, calls>>
    /\ UNCHANGED <<classifyVars, resolveVars, analyzerVars, renderVars, indexVars>>

ZipLoadResolves ==
    \E p \in 1..Len(procs) :
        /\ Pending(p, "zip") /\ procs[p].zpos = 0
        /\ Continue(p, AfterZipLoad(procs[p]))

ZipEntryResolves ==
    \E p \in 1..Len(procs) :
        /\ Pending(p, "zip") /\ procs[p].zpos > 0
        /\ Continue(p, AfterZipEntry(procs[p]))

\* JSZip.loadAsync or zipFile.async rejects
ZipRejects ==
    \E p \in 1..Len(procs) :
        /\ Pending(p, "zip")
        /\ Continue(p, AfterArchiveFailure(procs[p]))

TarReadResolves ==
    \E p \in 1..Len(procs) :
        /\ Pending(p, "tar")
        /\ Continue(p, AfterTarRead(procs[p]))

\* file.arrayBuffer() rejects or Tar.read throws
TarRejects ==
    \E p \in 1..Len(procs) :
        /\ Pending(p, "tar")
        /\ Continue(p, AfterArchiveFailure(procs[p]))

PlainReadResolves ==
    \E p \in 1..Len(procs) :
        /\ Pending(p, "plain")
        /\ Continue(p, AfterPlainRead(procs[p]))

PlainReadRejects ==
    \E p \in 1..Len(procs) :
        /\ Pending(p, "plain")
        /\ Continue(p, AfterPlainFailure(procs[p]))

NextUpload ==
    \/ ProcessFiles
    \/ ZipLoadResolves
    \/ ZipEntryResolves
    \/ ZipRejects
    \/ TarReadResolves
    \/ TarRejects
    \/ PlainReadResolves
    \/ PlainReadRejects

SpecUpload == InitUpload /\ [][NextUpload]_vars

\* the ProcessedFiles of the inputs of an invocation that did not fail
Deliverable(proc) ==
    {PlainEntry(proc.inputs[i]) :
        i \in {k \in 1..Len(proc.inputs) \ proc.failed :
                   InputKind(proc.inputs[k]) = "plain"}}
    \cup UNION {{ArchiveEntry(proc.inputs[i], proc.inputs[i].entries[j]) :
                    j \in {e \in 1..Len(proc.inputs[i].entries) :
                               proc.inputs[i].entries[e].hasData}} :
                i \in {k \in 1..Len(proc.inputs) \ proc.failed :
                           InputKind(proc.inputs[k]) # "plain"}}

Range(q) == {q[i] : i \in 1..Len(q)}

\* C11: an input that cannot be read or unpacked is skipped: when an
\* invocation of processFiles is over, the files of all its other inputs
\* have been handed to onFilesSelected, and isProcessing is false again once
\* no invocation is in flight.
C11_FailedInputIsSkipped ==
    /\ \A p \in 1..Len(procs) :
          procs[p].status # "running" =>
              \E c \in 1..Len(calls) :
                  /\ calls[c].by = p
                  /\ Deliverable(procs[p]) \subseteq Range(calls[c].list)
    /\ (\A p \in 1..Len(procs) : procs[p].status # "running") => ~isProcessing

\* C16: when overlapping invocations have all completed, the selected files
\* and the list passed last to onFilesSelected are those of the invocation
\* that was started last; isProcessing is true as long as an invocation is
\* in flight.
C16_LatestInvocationWins ==
    /\ (procs # <<>> /\ \A p \in 1..Len(procs) : procs[p].status = "completed") =>
          /\ selectedFiles = procs[Len(procs)].processedFiles
          /\ calls[Len(calls)].by = Len(procs)
    /\ (\E p \in 1..Len(procs) : procs[p].status = "running") => isProcessing

====
